---- MODULE Spec2Model ----
(***************************************************************************)
(* UK PAYE calculator: tax-code validation and parsing                     *)
(* (src/src/utils/taxCodeParser.ts, src/src/utils/taxCodeValidator.ts)     *)
(* and the calculation orchestrator calculateTaxDetails with its helpers.  *)
(*                                                                         *)
(* Strings are sequences of one-character strings.  Money is held in       *)
(* pence (integers), so that the 2-decimal rounding of the precise*        *)
(* helpers is integer rounding.                                            *)
(***************************************************************************)
EXTENDS Integers, Sequences, FiniteSets, TLC

VARIABLES
    pc,          \* position of the current call
    taxCode,     \* the tax-code string handed to the validator / parser / calculator
    validation,  \* result of validateTaxCode(taxCode)
    info,        \* result of parseTaxCode(taxCode)
    annualSalary,\* calculateTaxDetails argument, pence
    isCumulative,\* calculateTaxDetails argument
    taxYearData, \* what getTaxYearData resolved to
    result,      \* what calculateTaxDetails resolved to
    args,        \* the arguments of a helper applied on its own
    returned,    \* what that helper returned
    cache,       \* the memoize cache of calculateTaxDetails: key -> promise
    online       \* whether the tax-year configuration can be fetched

vars ==
    <<pc, taxCode, validation, info, annualSalary, isCumulative, taxYearData, result,
      args, returned, cache, online>>

Nothing == [none |-> TRUE]

-----------------------------------------------------------------------------
(* Strings *)

Digits == {"0", "1", "2", "3", "4", "5", "6", "7", "8", "9"}

DigitVal(c) ==
    CASE c = "0" -> 0 [] c = "1" -> 1 [] c = "2" -> 2 [] c = "3" -> 3
      [] c = "4" -> 4 [] c = "5" -> 5 [] c = "6" -> 6 [] c = "7" -> 7
      [] c = "8" -> 8 [] c = "9" -> 9

DigitChar(d) ==
    CASE d = 0 -> "0" [] d = 1 -> "1" [] d = 2 -> "2" [] d = 3 -> "3"
      [] d = 4 -> "4" [] d = 5 -> "5" [] d = 6 -> "6" [] d = 7 -> "7"
      [] d = 8 -> "8" [] d = 9 -> "9"

\* String.prototype.toUpperCase, on the characters the model types
UpperChar(c) ==
    CASE c = "k" -> "K" [] c = "s" -> "S" [] c = "l" -> "L" [] c = "b" -> "B"
      [] c = "r" -> "R" [] OTHER -> c

toUpperCase(s) == [i \in 1..Len(s) |-> UpperChar(s[i])]

\* String.prototype.trim: whitespace off both ends
RECURSIVE TrimLeft(_)
TrimLeft(s) == IF Len(s) > 0 /\ Head(s) = " " THEN TrimLeft(Tail(s)) ELSE s

RECURSIVE TrimRight(_)
TrimRight(s) ==
    IF Len(s) > 0 /\ s[Len(s)] = " " THEN TrimRight(SubSeq(s, 1, Len(s) - 1)) ELSE s

trim(s) == TrimRight(TrimLeft(s))

startsWith(s, p) == Len(s) >= Len(p) /\ SubSeq(s, 1, Len(p)) = p

endsWith(s, p) == Len(s) >= Len(p) /\ SubSeq(s, Len(s) - Len(p) + 1, Len(s)) = p

includes(s, p) ==
    \E i \in 1..(Len(s) - Len(p) + 1) : SubSeq(s, i, i + Len(p) - 1) = p

substring(s, n) == SubSeq(s, n + 1, Len(s))

AllDigits(s) == \A i \in 1..Len(s) : s[i] \in Digits

\* parseInt(s, 10) of a digit string
RECURSIVE parseInt(_)
parseInt(s) ==
    IF Len(s) = 0 THEN 0
    ELSE 10 * parseInt(SubSeq(s, 1, Len(s) - 1)) + DigitVal(s[Len(s)])

\* s.match(/\d+/): the first maximal run of digits, <<>> when there is none
MatchDigits(s) ==
    IF \A i \in 1..Len(s) : s[i] \notin Digits THEN <<>>
    ELSE LET first == CHOOSE i \in 1..Len(s) :
                          s[i] \in Digits /\ \A j \in 1..(i - 1) : s[j] \notin Digits
             last  == CHOOSE k \in first..Len(s) :
                          /\ \A j \in first..k : s[j] \in Digits
                          /\ (k = Len(s) \/ s[k + 1] \notin Digits)
         IN  SubSeq(s, first, last)

-----------------------------------------------------------------------------
(* validateTaxCode *)

SpecialCodes == {<<"B", "R">>, <<"D", "0">>, <<"D", "1">>, <<"N", "T">>, <<"0", "T">>}

SuffixLetters == {"T", "L", "M", "N", "W", "Y"}

PeriodSuffixes == {<<>>, <<"1">>, <<"W", "1">>, <<"M", "1">>}

MaxCodeDigits == 4

\* /^<prefix>\d{1,4}$/
MatchKCode(prefix, s) ==
    /\ startsWith(s, prefix)
    /\ LET rest == substring(s, Len(prefix))
       IN  Len(rest) \in 1..MaxCodeDigits /\ AllDigits(rest)

\* /^<prefix>\d{1,4}[TLMNWY](?:1|W1|M1)?$/
MatchStandardCode(prefix, s) ==
    /\ startsWith(s, prefix)
    /\ LET rest == substring(s, Len(prefix))
       IN  \E n \in 1..MaxCodeDigits :
              /\ Len(rest) > n
              /\ AllDigits(SubSeq(rest, 1, n))
              /\ rest[n + 1] \in SuffixLetters
              /\ substring(rest, n + 1) \in PeriodSuffixes

InvalidFormat == [isValid |-> FALSE, message |-> "Invalid tax code format"]

Valid == [isValid |-> TRUE, message |-> ""]

\* a validator whose K-code patterns let a suffix letter through
validateTaxCodeKSuffix(code) ==
    IF Len(code) = 0 \/ Len(trim(code)) = 0 THEN Valid
    ELSE LET normalizedCode == toUpperCase(code)
         IN  IF normalizedCode \in SpecialCodes THEN Valid
             ELSE IF \E p \in {<<"K">>, <<"S", "K">>, <<"C", "K">>} :
                        MatchKCode(p, normalizedCode) \/ MatchStandardCode(p, normalizedCode)
                 THEN Valid
             ELSE IF \E p \in {<<>>, <<"S">>, <<"C">>} : MatchStandardCode(p, normalizedCode)
                 THEN Valid
             ELSE InvalidFormat

validateTaxCode(code) ==
    IF Len(code) = 0 \/ Len(trim(code)) = 0 THEN Valid
    ELSE LET normalizedCode == toUpperCase(code)
         IN  IF normalizedCode \in SpecialCodes THEN Valid
             ELSE IF MatchKCode(<<"K">>, normalizedCode) THEN Valid
             ELSE IF MatchKCode(<<"S", "K">>, normalizedCode) THEN Valid
             ELSE IF MatchKCode(<<"C", "K">>, normalizedCode) THEN Valid
             ELSE IF MatchStandardCode(<<>>, normalizedCode) THEN Valid
             ELSE IF MatchStandardCode(<<"S">>, normalizedCode) THEN Valid
             ELSE IF MatchStandardCode(<<"C">>, normalizedCode) THEN Valid
             ELSE InvalidFormat

-----------------------------------------------------------------------------
(* parseTaxCode *)

Infinity == 999999999

DefaultAllowance == 12570

MarriageAllowance == 1260

\* a parser whose fallback for a code without digits is no allowance
parseBaseAllowanceZeroDefault(code) ==
    IF code \in {<<"B", "R">>, <<"D", "0">>, <<"D", "1">>, <<"N", "T">>} THEN 0
    ELSE LET prefix ==
                 IF startsWith(code, <<"S", "K">>) THEN <<"S", "K">>
                 ELSE IF startsWith(code, <<"S">>) THEN <<"S">>
                 ELSE IF startsWith(code, <<"C">>) THEN <<"C">>
                 ELSE IF startsWith(code, <<"K">>) THEN <<"K">>
                 ELSE <<>>
             numericMatch == MatchDigits(substring(code, Len(prefix)))
             numericValue == parseInt(numericMatch) * 10
         IN  IF numericMatch = <<>> THEN 0
             ELSE IF prefix = <<"K">> \/ prefix = <<"S", "K">> THEN -numericValue
             ELSE numericValue

\* parseBaseAllowance(code): pounds
parseBaseAllowance(code) ==
    IF code \in {<<"B", "R">>, <<"D", "0">>, <<"D", "1">>, <<"N", "T">>} THEN 0
    ELSE LET prefix ==
                 IF startsWith(code, <<"S", "K">>) THEN <<"S", "K">>
                 ELSE IF startsWith(code, <<"S">>) THEN <<"S">>
                 ELSE IF startsWith(code, <<"C">>) THEN <<"C">>
                 ELSE IF startsWith(code, <<"K">>) THEN <<"K">>
                 ELSE <<>>
             cleanCode == substring(code, Len(prefix))
             numericMatch == MatchDigits(cleanCode)
             numericValue == parseInt(numericMatch) * 10
         IN  IF numericMatch = <<>> THEN DefaultAllowance
             ELSE IF prefix = <<"K">> \/ prefix = <<"S", "K">> THEN -numericValue
             ELSE numericValue

DefaultInfo ==
    [ baseAllowance |-> DefaultAllowance,
      isScottish |-> FALSE,
      isWelsh |-> FALSE,
      isNegativeAllowance |-> FALSE,
      hasMarriageAllowance |-> FALSE,
      marriageAllowanceAmount |-> 0,
      specialCodeType |-> "undefined",
      taxRate |-> <<>>,
      isNonCumulative |-> FALSE ]

parseTaxCode(code) ==
    IF Len(code) = 0 \/ Len(trim(code)) = 0 THEN DefaultInfo
    ELSE
    LET normalizedCode == trim(toUpperCase(code))
        isNegativeAllowance == includes(normalizedCode, <<"K">>)
        special ==
            IF normalizedCode = <<"B", "R">>
                THEN [type |-> "BR", rate |-> <<20>>, allowance |-> 0]
            ELSE IF normalizedCode = <<"D", "0">>
                THEN [type |-> "D0", rate |-> <<40>>, allowance |-> 0]
            ELSE IF normalizedCode = <<"D", "1">>
                THEN [type |-> "D1", rate |-> <<45>>, allowance |-> 0]
            ELSE IF includes(normalizedCode, <<"N", "T">>)
                THEN [type |-> "NT", rate |-> <<0>>, allowance |-> Infinity]
            ELSE IF startsWith(normalizedCode, <<"0", "T">>)
                THEN [type |-> "0T", rate |-> <<>>, allowance |-> 0]
            ELSE [type |-> "undefined", rate |-> <<>>,
                  allowance |-> parseBaseAllowance(normalizedCode)]
        hasMarriageAllowance ==
            /\ ~isNegativeAllowance
            /\ (endsWith(normalizedCode, <<"M">>) \/ endsWith(normalizedCode, <<"N">>))
    IN  [ baseAllowance |-> special.allowance,
          isScottish |-> startsWith(normalizedCode, <<"S">>),
          isWelsh |-> startsWith(normalizedCode, <<"C">>),
          isNegativeAllowance |-> isNegativeAllowance,
          hasMarriageAllowance |-> hasMarriageAllowance,
          marriageAllowanceAmount |->
              IF hasMarriageAllowance
              THEN (IF endsWith(normalizedCode, <<"M">>)
                    THEN MarriageAllowance ELSE -MarriageAllowance)
              ELSE 0,
          specialCodeType |-> special.type,
          taxRate |-> special.rate,
          isNonCumulative |->
              \/ endsWith(normalizedCode, <<"W", "1">>)
              \/ endsWith(normalizedCode, <<"M", "1">>)
              \/ includes(normalizedCode, <<"X">>) ]

-----------------------------------------------------------------------------
(* Precision arithmetic (decimal.js, ROUND_HALF_UP, 2 decimal places).        *)
(* Every number is held in hundredths: 12 is 1200, 0.01 is 1, 20 pounds is   *)
(* 2000.  Infinity, -Infinity and NaN are the non-finite values of a number.  *)

Num(n) == n * 100

\* the number that is not a number: no finite amount, and neither infinity
NaN == -888888888

isNaN(x) == x = NaN

Abs(x) == IF x < 0 THEN -x ELSE x

\* Math.max and Math.min: NaN if either argument is NaN
Max(a, b) == IF isNaN(a) \/ isNaN(b) THEN NaN ELSE IF a >= b THEN a ELSE b

Min(a, b) == IF isNaN(a) \/ isNaN(b) THEN NaN ELSE IF a <= b THEN a ELSE b

\* n / d rounded to the nearest integer, halves away from zero (n >= 0, d > 0)
RoundHalfUp(n, d) == (n \div d) + (IF 2 * (n % d) >= d THEN 1 ELSE 0)

\* a * m / d rounded half up, a, m >= 0 and d > 0, without forming a * m
MulDiv(a, m, d) == (a \div d) * m + RoundHalfUp((a % d) * m, d)

Sign(a, b) == IF (a < 0) = (b < 0) THEN 1 ELSE -1

\* each helper returns 0 as soon as an operand is NaN; the Decimal result of
\* operands that are not NaN can itself be NaN (Infinity - Infinity, Infinity * 0)
preciseAdd(a, b) ==
    IF isNaN(a) \/ isNaN(b) THEN 0
    ELSE IF Abs(a) = Infinity /\ Abs(b) = Infinity THEN (IF a = b THEN a ELSE NaN)
    ELSE IF Abs(a) = Infinity THEN a
    ELSE IF Abs(b) = Infinity THEN b
    ELSE a + b

preciseSubtract(a, b) ==
    IF isNaN(a) \/ isNaN(b) THEN 0
    ELSE IF Abs(a) = Infinity /\ Abs(b) = Infinity THEN (IF a = b THEN NaN ELSE a)
    ELSE IF Abs(a) = Infinity THEN a
    ELSE IF Abs(b) = Infinity THEN -b
    ELSE a - b

preciseMultiply(a, b) ==
    IF isNaN(a) \/ isNaN(b) THEN 0
    ELSE IF Abs(a) = Infinity \/ Abs(b) = Infinity
        THEN (IF a = 0 \/ b = 0 THEN NaN ELSE Sign(a, b) * Infinity)
    ELSE IF a = 0 \/ b = 0 THEN 0
    ELSE Sign(a, b) * MulDiv(Abs(a), Abs(b), 100)

preciseDivide(a, b) ==
    IF b = 0 THEN 0
    ELSE IF isNaN(a) \/ isNaN(b) THEN 0
    ELSE IF Abs(b) = Infinity THEN (IF Abs(a) = Infinity THEN NaN ELSE 0)
    ELSE IF Abs(a) = Infinity THEN Sign(a, b) * Infinity
    ELSE Sign(a, b) * MulDiv(Abs(a), 100, Abs(b))

preciseRound(value) == IF isNaN(value) THEN 0 ELSE value

-----------------------------------------------------------------------------
(* Tax-year configuration: what getTaxYearData resolves to *)

Band(name, rate, from, to) ==
    [name |-> name, rate |-> Num(rate), from |-> Num(from), to |-> Num(to),
     toIsString |-> FALSE]

LastBand(name, rate, from) ==
    [name |-> name, rate |-> Num(rate), from |-> Num(from), to |-> 0,
     toIsString |-> TRUE]

\* UK_TAX_BANDS of the calculation module
UK_TAX_BANDS ==
    << Band("Personal Allowance", 0, 0, 12570),
       Band("Basic Rate", 20, 12571, 50270),
       Band("Higher Rate", 40, 50271, 125140),
       LastBand("Additional Rate", 45, 125141) >>

\* bands of taxable income, after the allowance: 37700 at 20%, 74870 + 12570 at 40%
TaxableIncomeBands ==
    << Band("Basic Rate", 20, 0, 37700),
       Band("Higher Rate", 40, 37700, 125140),
       LastBand("Additional Rate", 45, 125140) >>

ScottishBands ==
    << Band("Starter Rate", 19, 0, 2162),
       Band("Basic Rate", 20, 2162, 13118),
       Band("Intermediate Rate", 21, 13118, 31092),
       Band("Higher Rate", 42, 31092, 125140),
       LastBand("Top Rate", 47, 125140) >>

TaperConfig == [paTaperThreshold |-> Num(100000), paTaperRate |-> 50]

TaxYears ==
    { [ regions |-> [ UK |-> [name |-> "UK", bands |-> TaxableIncomeBands],
                      Scotland |-> [name |-> "Scotland", bands |-> ScottishBands],
                      Wales |-> [name |-> "Wales", bands |-> TaxableIncomeBands] ],
        config |-> TaperConfig ],
      [ regions |-> [ UK |-> [name |-> "UK", bands |-> UK_TAX_BANDS],
                      Scotland |-> [name |-> "Scotland", bands |-> ScottishBands],
                      Wales |-> [name |-> "Wales", bands |-> UK_TAX_BANDS] ],
        config |-> TaperConfig ] }

-----------------------------------------------------------------------------
(* calculatePersonalAllowance, calculateIncomeTax, calculateNI *)

\* the descriptor's baseAllowance (pounds) as money
AllowanceOf(taxCodeInfo) ==
    IF taxCodeInfo.baseAllowance = Infinity THEN Infinity
    ELSE Num(taxCodeInfo.baseAllowance)

\* Math.floor((salary - paTaperThreshold) * paTaperRate), as money
TaperReduction(salary, data) ==
    Num(((salary - data.config.paTaperThreshold) * data.config.paTaperRate) \div 10000)

\* a taper that does not stop at the allowance
calculatePersonalAllowanceNoFloor(salary, taxCodeInfo, data) ==
    LET allowance == AllowanceOf(taxCodeInfo)
    IN  IF salary > data.config.paTaperThreshold
        THEN preciseSubtract(allowance, TaperReduction(salary, data))
        ELSE allowance

calculatePersonalAllowance(salary, taxCodeInfo, data) ==
    LET allowance == AllowanceOf(taxCodeInfo)
    IN  IF salary > data.config.paTaperThreshold
        THEN preciseSubtract(allowance, Min(allowance, TaperReduction(salary, data)))
        ELSE allowance

RECURSIVE IncomeTaxFrom(_, _, _, _)
IncomeTaxFrom(bands, i, remainingAmount, totalTax) ==
    IF i > Len(bands) THEN totalTax
    ELSE LET band == bands[i]
             bandAmount ==
                 Min(Max(0, remainingAmount),
                     IF band.toIsString THEN remainingAmount ELSE band.to - band.from)
             bandTax == preciseMultiply(bandAmount, preciseMultiply(band.rate, 1))
             total == preciseAdd(totalTax, bandTax)
             remaining == preciseSubtract(remainingAmount, bandAmount)
         IN  IF remaining <= 0 THEN total
             ELSE IncomeTaxFrom(bands, i + 1, remaining, total)

calculateIncomeTax(taxableAmount, taxRegion) ==
    preciseRound(IncomeTaxFrom(taxRegion.bands, 1, taxableAmount, 0))

RAW_PRIMARY_THRESHOLD == 12570

RAW_UPPER_EARNINGS_LIMIT == 50270

MAIN_RATE == 12

HIGHER_RATE == 2

\* preciseSubtract(x, raw / 12), in pence: the monthly thresholds are raw / 12, not
\* rounded to pence; x is n / perPenny pence, so that an argument finer than a penny
\* can be given
SubtractMonthly(n, perPenny, raw) ==
    LET d == 12 * n - Num(raw) * perPenny
    IN  Sign(d, 1) * RoundHalfUp(Abs(d), 12 * perPenny)

\* the higher rate in place of the main rate above the upper earnings limit
calculateNIAtHigherOnly(n, perPenny) ==
    IF isNaN(n) \/ n <= 0 THEN 0
    ELSE IF 12 * n > Num(RAW_UPPER_EARNINGS_LIMIT) * perPenny
        THEN preciseMultiply(SubtractMonthly(n, perPenny, RAW_UPPER_EARNINGS_LIMIT),
                             HIGHER_RATE)
    ELSE IF 12 * n > Num(RAW_PRIMARY_THRESHOLD) * perPenny
        THEN preciseMultiply(SubtractMonthly(n, perPenny, RAW_PRIMARY_THRESHOLD), MAIN_RATE)
    ELSE 0

\* the main-rate earnings not limited to the upper earnings limit
calculateNIAtNoUpperLimit(n, perPenny) ==
    IF isNaN(n) \/ n <= 0 THEN 0
    ELSE preciseAdd(
             IF 12 * n > Num(RAW_PRIMARY_THRESHOLD) * perPenny
             THEN preciseMultiply(SubtractMonthly(n, perPenny, RAW_PRIMARY_THRESHOLD),
                                  MAIN_RATE)
             ELSE 0,
             IF 12 * n > Num(RAW_UPPER_EARNINGS_LIMIT) * perPenny
             THEN preciseMultiply(SubtractMonthly(n, perPenny, RAW_UPPER_EARNINGS_LIMIT),
                                  HIGHER_RATE)
             ELSE 0)

\* calculateNI for the monthly salary n / perPenny pence
calculateNIAt(n, perPenny) ==
    IF isNaN(n) \/ n <= 0 THEN 0
    ELSE
    LET overPrimary == 12 * n > Num(RAW_PRIMARY_THRESHOLD) * perPenny
        overUpper == 12 * n > Num(RAW_UPPER_EARNINGS_LIMIT) * perPenny
        mainRateEarnings ==
            Min(SubtractMonthly(n, perPenny, RAW_PRIMARY_THRESHOLD),
                RoundHalfUp(Num(RAW_UPPER_EARNINGS_LIMIT - RAW_PRIMARY_THRESHOLD), 12))
        main == IF overPrimary THEN preciseMultiply(mainRateEarnings, MAIN_RATE) ELSE 0
        higher ==
            IF overUpper
            THEN preciseMultiply(SubtractMonthly(n, perPenny, RAW_UPPER_EARNINGS_LIMIT),
                                 HIGHER_RATE)
            ELSE 0
    IN  preciseRound(preciseAdd(main, higher))

\* calculateNI for a monthly salary in pence
calculateNI(monthlySalary) == calculateNIAt(monthlySalary, 1)

\* calculateTaxBands: the bands pushed until nothing remains
RECURSIVE TaxBandsFrom(_, _, _)
TaxBandsFrom(bands, i, remainingAmount) ==
    IF i > Len(bands) THEN <<>>
    ELSE LET band == bands[i]
             amountInBand ==
                 IF band.toIsString THEN Max(0, remainingAmount)
                 ELSE Min(Max(0, remainingAmount), band.to - band.from)
             taxInBand == preciseMultiply(amountInBand, preciseMultiply(band.rate, 1))
             entry == [band |-> band.name, amount |-> amountInBand, tax |-> taxInBand]
             remaining == preciseSubtract(remainingAmount, amountInBand)
         IN  IF remaining <= 0 THEN <<entry>>
             ELSE <<entry>> \o TaxBandsFrom(bands, i + 1, remaining)

\* a loop that stops after the first band
calculateTaxBandsFirstOnly(salary, personalAllowance, taxRegion) ==
    TaxBandsFrom(<<taxRegion.bands[1]>>, 1, salary)

calculateTaxBands(salary, personalAllowance, taxRegion) ==
    TaxBandsFrom(taxRegion.bands, 1, salary)

-----------------------------------------------------------------------------
(* calculateNIBands *)

\* NI_THRESHOLDS.PRIMARY_THRESHOLD and NI_THRESHOLDS.UPPER_EARNINGS_LIMIT: each is the
\* object {WEEKLY, MONTHLY, ANNUAL} that validateNIThresholds returned, not a number
PRIMARY_THRESHOLD_OBJECT == -666666661

UPPER_EARNINGS_LIMIT_OBJECT == -666666662

isObject(x) == x \in {PRIMARY_THRESHOLD_OBJECT, UPPER_EARNINGS_LIMIT_OBJECT}

\* the number an operand of -, >, Math.min or isNaN is converted to
ToNumber(x) == IF isObject(x) THEN NaN ELSE x

\* a - b of two values
Minus(a, b) ==
    IF isNaN(ToNumber(a)) \/ isNaN(ToNumber(b)) THEN NaN ELSE ToNumber(a) - ToNumber(b)

\* a > b of two values: false when either is NaN
GreaterThan(a, b) ==
    ~isNaN(ToNumber(a)) /\ ~isNaN(ToNumber(b)) /\ ToNumber(a) > ToNumber(b)

calculateNIBands(salary) ==
    LET monthlyAmount == preciseDivide(salary, Num(12))
    IN  << [ band |-> "Below Primary Threshold",
             from |-> 0,
             to |-> PRIMARY_THRESHOLD_OBJECT,
             amount |-> Min(salary, ToNumber(PRIMARY_THRESHOLD_OBJECT)),
             tax |-> 0 ],
           [ band |-> "Main Rate",
             from |-> PRIMARY_THRESHOLD_OBJECT,
             to |-> UPPER_EARNINGS_LIMIT_OBJECT,
             amount |->
                 Max(0, Min(Minus(salary, PRIMARY_THRESHOLD_OBJECT),
                            Minus(UPPER_EARNINGS_LIMIT_OBJECT, PRIMARY_THRESHOLD_OBJECT))),
             tax |-> calculateNI(monthlyAmount) * 12 ],
           [ band |-> "Higher Rate",
             from |-> UPPER_EARNINGS_LIMIT_OBJECT,
             to |-> Infinity,
             amount |-> Max(0, Minus(salary, UPPER_EARNINGS_LIMIT_OBJECT)),
             tax |->
                 IF GreaterThan(salary, UPPER_EARNINGS_LIMIT_OBJECT)
                 THEN preciseMultiply(Minus(salary, UPPER_EARNINGS_LIMIT_OBJECT), HIGHER_RATE)
                 ELSE 0 ] >>

-----------------------------------------------------------------------------
(* calculateTaxDetails *)

Months == 1..12

\* another code taken as the default
DefaultTaxCodeBR == <<"B", "R">>

DefaultTaxCode == <<"1", "2", "5", "7", "L">>

RECURSIVE SumOver(_, _, _)
SumOver(breakdown, field, m) ==
    IF m = 0 THEN 0 ELSE preciseAdd(SumOver(breakdown, field, m - 1), breakdown[m][field])

\* the K-code addition left unlimited
AdjustedAllowanceNoLimit(salary, taxCodeInfo, data) ==
    calculatePersonalAllowance(salary, taxCodeInfo, data)

\* the limit applied whatever the code
AdjustedAllowanceEveryCode(salary, taxCodeInfo, data) ==
    LET personalAllowance == calculatePersonalAllowance(salary, taxCodeInfo, data)
        maxTaxableAddition == salary \div 2
    IN  IF Abs(personalAllowance) > maxTaxableAddition
        THEN -maxTaxableAddition
        ELSE personalAllowance

\* the personal allowance after the K-code limit
AdjustedAllowance(salary, taxCodeInfo, data) ==
    LET personalAllowance == calculatePersonalAllowance(salary, taxCodeInfo, data)
        kCodeAdjustment == Abs(personalAllowance)
        maxTaxableAddition == salary \div 2
    IN  IF taxCodeInfo.isNegativeAllowance /\ kCodeAdjustment > maxTaxableAddition
        THEN -maxTaxableAddition
        ELSE personalAllowance

\* National Insurance taken from the year-to-date gross
MonthDetailCumulativeNI(monthNumber, monthlyGross, monthlyAllowance, cumulative, taxRegion) ==
    LET ytdGross ==
            IF cumulative THEN preciseMultiply(monthlyGross, Num(monthNumber))
            ELSE monthlyGross
        ytdAllowance ==
            IF cumulative THEN preciseMultiply(monthlyAllowance, Num(monthNumber))
            ELSE monthlyAllowance
        taxable == Max(0, preciseSubtract(ytdGross, ytdAllowance))
        incomeTax == calculateIncomeTax(taxable, taxRegion)
        ni == calculateNI(ytdGross)
        currentMonthTax ==
            IF cumulative THEN preciseDivide(incomeTax, Num(monthNumber)) ELSE incomeTax
    IN  [ month |-> monthNumber,
          gross |-> monthlyGross,
          taxFree |-> Max(0, monthlyAllowance),
          taxable |-> preciseDivide(taxable, IF cumulative THEN Num(monthNumber) ELSE Num(1)),
          incomeTax |-> currentMonthTax,
          nationalInsurance |-> ni,
          netPay |-> preciseSubtract(monthlyGross, preciseAdd(currentMonthTax, ni)) ]

MonthDetail(monthNumber, monthlyGross, monthlyAllowance, cumulative, taxRegion) ==
    LET ytdGross ==
            IF cumulative THEN preciseMultiply(monthlyGross, Num(monthNumber))
            ELSE monthlyGross
        ytdAllowance ==
            IF cumulative THEN preciseMultiply(monthlyAllowance, Num(monthNumber))
            ELSE monthlyAllowance
        taxable == Max(0, preciseSubtract(ytdGross, ytdAllowance))
        incomeTax == calculateIncomeTax(taxable, taxRegion)
        ni == calculateNI(monthlyGross)
        currentMonthTax ==
            IF cumulative THEN preciseDivide(incomeTax, Num(monthNumber)) ELSE incomeTax
    IN  [ month |-> monthNumber,
          gross |-> monthlyGross,
          taxFree |-> Max(0, monthlyAllowance),
          taxable |-> preciseDivide(taxable, IF cumulative THEN Num(monthNumber) ELSE Num(1)),
          incomeTax |-> currentMonthTax,
          nationalInsurance |-> ni,
          netPay |-> preciseSubtract(monthlyGross, preciseAdd(currentMonthTax, ni)) ]

\* a clamp that lets NaN through
SalaryOrZeroNegativeOnly(annualSalaryArg) ==
    IF annualSalaryArg < 0 /\ ~isNaN(annualSalaryArg) THEN 0 ELSE annualSalaryArg

\* isNaN(annualSalary) || annualSalary < 0 ? 0 : annualSalary
SalaryOrZero(annualSalaryArg) ==
    IF isNaN(annualSalaryArg) \/ annualSalaryArg < 0 THEN 0 ELSE annualSalaryArg

\* periodIndex: the index of the current period's month in monthlyBreakdown
PeriodIndex(currentPeriod) ==
    IF currentPeriod.type = "month" THEN currentPeriod.number - 1
    ELSE ((currentPeriod.number * 12) \div 52) - 1

\* an adjustment that clears the later months
ApplyCurrentPeriodClearing(monthlyBreakdown, currentPeriod) ==
    IF currentPeriod = Nothing THEN monthlyBreakdown
    ELSE LET periodIndex == PeriodIndex(currentPeriod)
         IN  IF periodIndex >= 0 /\ periodIndex < 12
             THEN [m \in Months |->
                     IF m - 1 > periodIndex
                     THEN [monthlyBreakdown[m] EXCEPT
                             !.incomeTax = 0, !.nationalInsurance = 0,
                             !.netPay = monthlyBreakdown[m].gross]
                     ELSE monthlyBreakdown[m]]
             ELSE monthlyBreakdown

\* an adjustment that leaves the later months' net pay as computed
ApplyCurrentPeriodTaxOnly(monthlyBreakdown, currentPeriod) ==
    IF currentPeriod = Nothing THEN monthlyBreakdown
    ELSE LET periodIndex == PeriodIndex(currentPeriod)
         IN  IF periodIndex >= 0 /\ periodIndex < 12
             THEN [m \in Months |->
                     IF m - 1 > periodIndex
                     THEN [monthlyBreakdown[m] EXCEPT
                             !.incomeTax = monthlyBreakdown[periodIndex + 1].incomeTax,
                             !.nationalInsurance =
                                 monthlyBreakdown[periodIndex + 1].nationalInsurance]
                     ELSE monthlyBreakdown[m]]
             ELSE monthlyBreakdown

\* the months after the current period's take its tax, NI and net pay
ApplyCurrentPeriod(monthlyBreakdown, currentPeriod) ==
    IF currentPeriod = Nothing THEN monthlyBreakdown
    ELSE LET periodIndex == PeriodIndex(currentPeriod)
         IN  IF periodIndex >= 0 /\ periodIndex < 12
             THEN [m \in Months |->
                     IF m - 1 > periodIndex
                     THEN [monthlyBreakdown[m] EXCEPT
                             !.incomeTax = monthlyBreakdown[periodIndex + 1].incomeTax,
                             !.nationalInsurance =
                                 monthlyBreakdown[periodIndex + 1].nationalInsurance,
                             !.netPay = monthlyBreakdown[periodIndex + 1].netPay]
                     ELSE monthlyBreakdown[m]]
             ELSE monthlyBreakdown

\* calculateTaxDetails with its optional last argument, currentPeriod
calculateTaxDetailsIn(salaryArg, codeArg, cumulative, data, currentPeriod) ==
    LET salary == SalaryOrZero(salaryArg)
        tCode == IF Len(codeArg) = 0 THEN DefaultTaxCode ELSE codeArg
        taxCodeInfo == parseTaxCode(tCode)
        regionCode ==
            IF taxCodeInfo.isScottish THEN "Scotland"
            ELSE IF taxCodeInfo.isWelsh THEN "Wales" ELSE "UK"
        taxRegion == data.regions[regionCode]
        personalAllowance == AdjustedAllowance(salary, taxCodeInfo, data)
        monthlyGross == preciseDivide(salary, Num(12))
        monthlyAllowance == preciseDivide(personalAllowance, Num(12))
        monthlyBreakdown ==
            [m \in Months |->
                MonthDetail(m, monthlyGross, monthlyAllowance, cumulative, taxRegion)]
        annualTax == SumOver(monthlyBreakdown, "incomeTax", 12)
        annualNI == SumOver(monthlyBreakdown, "nationalInsurance", 12)
    IN  [ annualSummary |->
              [ gross |-> salary,
                totalIncomeTax |-> annualTax,
                totalNI |-> annualNI,
                netAnnual |-> preciseSubtract(salary, preciseAdd(annualTax, annualNI)) ],
          monthlyBreakdown |-> ApplyCurrentPeriod(monthlyBreakdown, currentPeriod),
          incomeTaxBands |-> calculateTaxBands(salary, personalAllowance, taxRegion),
          niBands |-> calculateNIBands(salary) ]

\* calculateTaxDetails without a currentPeriod
calculateTaxDetails(salaryArg, codeArg, cumulative, data) ==
    calculateTaxDetailsIn(salaryArg, codeArg, cumulative, data, Nothing)

-----------------------------------------------------------------------------
(* Tax-code inputs *)

MaxLen == 3

MaxDigits == 5

MaxKNumber == 999

CodeAlphabet ==
    {"0", "1", "K", "S", "C", "L", "M", "N", "T", "W", "X", "B", "R", "D", " ", "k"}

RECURSIVE StringsUpTo(_, _)
StringsUpTo(alphabet, n) ==
    IF n = 0 THEN {<<>>}
    ELSE LET shorter == StringsUpTo(alphabet, n - 1)
         IN  shorter \cup {Append(s, c) : s \in shorter, c \in alphabet}

\* decimal rendering of a positive number (template literal `${N}`)
RECURSIVE ToDecimal(_)
ToDecimal(n) ==
    IF n < 10 THEN <<DigitChar(n)>> ELSE Append(ToDecimal(n \div 10), DigitChar(n % 10))

KPrefixes == {<<"K">>, <<"S", "K">>, <<"C", "K">>}

RegionPrefixes == {<<>>, <<"S">>, <<"C">>}

DigitRuns == StringsUpTo({"0", "1", "9"}, MaxDigits) \ {<<>>}

CodeTails ==
    {<<>>, <<"L">>, <<"M">>, <<"N">>, <<"T">>, <<"W">>, <<"Y">>, <<"X">>, <<"A">>,
     <<"L", "1">>, <<"L", "W", "1">>, <<"L", "M", "1">>, <<"M", "1">>, <<"L", "X">>,
     <<"L", "2">>, <<"L", "L">>, <<"l">>}

\* the codes of testTaxCodeProcessor and of the isValidTaxCode tests
SampleCodes ==
    { <<"K", "4", "7", "5">>, <<"S", "K", "4", "7", "5">>, <<"C", "K", "4", "7", "5">>,
      <<"1", "2", "5", "7", "L">>, <<"S", "1", "2", "5", "7", "L">>,
      <<"C", "1", "2", "5", "7", "L">>, <<"I", "N", "V", "A", "L", "I", "D">>,
      <<"1", "2", "5", "7", "M">>, <<"1", "2", "5", "7", "L", "W", "1">>,
      <<"1", "2", "3", "4", "X">>, <<"K", "1", "2", "3", "4", "X">>,
      <<"K", "1", "0", "0">>, <<" ", " ">>, <<" ", "1", "2", "5", "7", "L">>,
      <<"1", "2", "5", "7", "l">>, <<"s", "k", "4", "7", "5">> }

\* every short string, the K-codes K<N>, SK<N>, CK<N>, and prefix + digits + tail
CodeInputs ==
    StringsUpTo(CodeAlphabet, MaxLen)
      \cup SampleCodes
      \cup {p \o ToDecimal(n) : p \in KPrefixes, n \in 1..MaxKNumber}
      \cup {p \o d \o t : p \in KPrefixes \cup RegionPrefixes, d \in DigitRuns, t \in CodeTails}

-----------------------------------------------------------------------------
(* The tax-code form: the code is validated, then parsed *)

InitCode ==
    /\ pc = "typed"
    /\ taxCode \in CodeInputs
    /\ validation = Nothing
    /\ info = Nothing
    /\ annualSalary = 0
    /\ isCumulative = FALSE
    /\ taxYearData = Nothing
    /\ result = Nothing
    /\ args = Nothing
    /\ returned = Nothing
    /\ cache = <<>>
    /\ online = TRUE

Validate ==
    /\ pc = "typed"
    /\ validation' = validateTaxCode(taxCode)
    /\ pc' = "validated"
    /\ UNCHANGED <<taxCode, info, annualSalary, isCumulative, taxYearData, result,
                   args, returned>>
    /\ UNCHANGED <<cache, online>>

Parse ==
    /\ pc = "validated"
    /\ info' = parseTaxCode(taxCode)
    /\ pc' = "parsed"
    /\ UNCHANGED <<taxCode, validation, annualSalary, isCumulative, taxYearData, result,
                   args, returned>>
    /\ UNCHANGED <<cache, online>>

NextCode == Validate \/ Parse

SpecCode == InitCode /\ [][NextCode]_vars

-----------------------------------------------------------------------------
(* A call of calculateTaxDetails: it awaits the tax-year data, then computes *)

MaxSalarySteps == 80

\* whole pounds: a grid of 2500, and the thresholds and the documented examples
Salaries ==
    {Num(k * 2500) : k \in 0..MaxSalarySteps}
      \cup {NaN, Num(-100), Num(1), Num(1000), Num(12570), Num(37700), Num(50270),
            Num(100001), Num(100002), Num(125139), Num(125140), Num(199980),
            Num(60000) - 105}

CalcCodes ==
    { <<>>, <<" ">>, <<" ", " ">>, DefaultTaxCode,
      <<"B", "R">>, <<"D", "0">>, <<"D", "1">>, <<"N", "T">>, <<"0", "T">>,
      <<"K", "1", "0", "0">>, <<"K", "4", "7", "5">>, <<"K", "9", "9", "9">>,
      <<"K", "9", "9", "9", "9">>, <<"S", "K", "4", "7", "5">>, <<"C", "K", "4", "7", "5">>,
      <<"S", "K", "9", "9", "9", "9">>,
      <<"S", "1", "2", "5", "7", "L">>, <<"C", "1", "2", "5", "7", "L">>,
      <<"1", "2", "5", "7", "M">>, <<"1", "0", "0", "L">>, <<"1", "2", "5", "7", "L", "X">>,
      <<"b", "r">>, <<"n", "t">> }

\* validateInput(salary, tCode)
validateInput(salary, tCode) ==
    IF isNaN(salary) \/ salary <= 0
        THEN [isValid |-> FALSE, message |-> "Invalid salary amount"]
    ELSE IF salary > Num(10000000)
        THEN [isValid |-> FALSE, message |-> "Salary exceeds maximum allowed value"]
    ELSE validateTaxCode(tCode)

Init ==
    /\ pc = "idle"
    /\ taxCode \in CalcCodes
    /\ annualSalary \in Salaries
    /\ isCumulative \in BOOLEAN
    /\ validation = Nothing
    /\ info = Nothing
    /\ taxYearData = Nothing
    /\ result = Nothing
    /\ args = Nothing
    /\ returned = Nothing
    /\ cache = <<>>
    /\ online = TRUE

\* the async function starts and suspends at `await getTaxYearData(taxYear)`
Call ==
    /\ pc = "idle"
    /\ pc' = "awaiting"
    /\ UNCHANGED <<taxCode, validation, info, annualSalary, isCumulative, taxYearData,
                   result, args, returned>>
    /\ UNCHANGED <<cache, online>>

\* the tax-year data arrives and the rest of the function runs to its return
Resume ==
    /\ pc = "awaiting"
    /\ \E data \in TaxYears :
          /\ taxYearData' = data
          /\ result' =
                calculateTaxDetailsIn(annualSalary, taxCode, isCumulative, data,
                    IF args = Nothing THEN Nothing ELSE args.currentPeriod)
    /\ validation' =
          validateInput(SalaryOrZero(annualSalary),
                        IF Len(taxCode) = 0 THEN DefaultTaxCode ELSE taxCode)
    /\ info' = parseTaxCode(IF Len(taxCode) = 0 THEN DefaultTaxCode ELSE taxCode)
    /\ pc' = "done"
    /\ UNCHANGED <<taxCode, annualSalary, isCumulative, args, returned>>
    /\ UNCHANGED <<cache, online>>

Next == Call \/ Resume

Spec == Init /\ [][Next]_vars

-----------------------------------------------------------------------------
(* Claims about the tax-code form *)

\* the number N of a code P + N, N written in decimal without a leading zero
KCodeNumber(code) ==
    LET p == IF startsWith(code, <<"K">>) THEN 1 ELSE 2
        n == parseInt(substring(code, p))
    IN  IF /\ \E k \in KPrefixes : startsWith(code, k)
           /\ Len(code) > p
           /\ AllDigits(substring(code, p))
           /\ n \in 1..MaxKNumber
           /\ substring(code, p) = ToDecimal(n)
        THEN n ELSE 0

\* C5: for every N in 1..999 and every prefix P in {K, SK, CK}, parseTaxCode(P + N)
\* has isNegativeAllowance = TRUE and baseAllowance = -(N * 10).
C5_KCodeSign ==
    (pc = "parsed" /\ KCodeNumber(taxCode) > 0) =>
        /\ info.isNegativeAllowance
        /\ info.baseAllowance = -(KCodeNumber(taxCode) * 10)

\* the grammar of the claim: the body before an optional 1 / W1 / M1 is an optional
\* S or C, one to four digits and one letter of T L M N W Y
StandardBody(body) ==
    /\ Len(body) >= 2
    /\ body[Len(body)] \in {"T", "L", "M", "N", "W", "Y"}
    /\ LET front == SubSeq(body, 1, Len(body) - 1)
           num == IF Head(front) \in {"S", "C"} THEN Tail(front) ELSE front
       IN  Len(num) >= 1 /\ Len(num) <= 4 /\ AllDigits(num)

KBody(u) ==
    \E k \in 1..2 :
        /\ Len(u) > k
        /\ SubSeq(u, 1, k) \in {<<"K">>, <<"S", "K">>, <<"C", "K">>}
        /\ Len(u) - k <= 4
        /\ \A i \in (k + 1)..Len(u) : u[i] \in Digits

InGrammar(code) ==
    LET u == toUpperCase(code)
    IN  \/ \A i \in 1..Len(code) : code[i] = " "
        \/ u \in {<<"B", "R">>, <<"D", "0">>, <<"D", "1">>, <<"N", "T">>, <<"0", "T">>}
        \/ KBody(u)
        \/ StandardBody(u)
        \/ (endsWith(u, <<"1">>) /\ StandardBody(SubSeq(u, 1, Len(u) - 1)))
        \/ (endsWith(u, <<"W", "1">>) /\ StandardBody(SubSeq(u, 1, Len(u) - 2)))
        \/ (endsWith(u, <<"M", "1">>) /\ StandardBody(SubSeq(u, 1, Len(u) - 2)))

Unrecognized(code) == Len(trim(code)) > 0 /\ ~InGrammar(trim(code))

\* C9 as stated: every non-empty code that matches none of the recognized grammars
\* parses to the default descriptor.
C9_UnparseableIsDefault ==
    (pc = "parsed" /\ Unrecognized(taxCode)) => info = DefaultInfo

\* no character or pattern of the code is one the parser reacts to
NoParserMarker(code) ==
    LET u == trim(toUpperCase(code))
    IN  /\ \A i \in 1..Len(u) : u[i] \notin Digits \cup {"K", "X"}
        /\ ~startsWith(u, <<"S">>)
        /\ ~startsWith(u, <<"C">>)
        /\ ~includes(u, <<"N", "T">>)
        /\ ~endsWith(u, <<"M">>)
        /\ ~endsWith(u, <<"N">>)

\* C9 amended: parseTaxCode returns a descriptor for every string, and every non-empty
\* code outside the grammar that has no digit, no K, no X, no NT, no leading S or C
\* and no trailing M or N parses to the default descriptor.
C9_MarkerFreeIsDefault ==
    (pc = "parsed") =>
        /\ info # Nothing
        /\ (Unrecognized(taxCode) /\ NoParserMarker(taxCode)) => info = DefaultInfo

C9_Witness ==
    /\ pc = "parsed"
    /\ taxCode = <<"I", "N", "V", "A", "L", "I", "D">>
    /\ ~validation.isValid
    /\ info = DefaultInfo

\* C10: the descriptor is of exactly one kind: no special code type together with a
\* negative allowance, no marriage allowance together with a negative allowance, and
\* never both Scottish and Welsh.
C10_ExactlyOneKind ==
    (pc = "parsed") =>
        /\ ~(info.specialCodeType # "undefined" /\ info.isNegativeAllowance)
        /\ ~(info.hasMarriageAllowance /\ info.isNegativeAllowance)
        /\ ~(info.isScottish /\ info.isWelsh)

-----------------------------------------------------------------------------
(* Claims about calculateTaxDetails *)

\* what the call in progress was given, after the defaults of lines 454-455
Salary == IF isNaN(annualSalary) \/ annualSalary < 0 THEN 0 ELSE annualSalary

TCode == IF Len(taxCode) = 0 THEN DefaultTaxCode ELSE taxCode

NormalizedCode == trim(toUpperCase(TCode))

Region ==
    taxYearData.regions[IF info.isScottish THEN "Scotland"
                        ELSE IF info.isWelsh THEN "Wales" ELSE "UK"]

Within(a, b, tolerance) == Abs(a - b) <= tolerance

FlatRateOf(code) ==
    CASE code = <<"B", "R">> -> 20 [] code = <<"D", "0">> -> 40 [] code = <<"D", "1">> -> 45

\* C1: with tax code BR, D0 or D1 the annual income tax is 20%, 40% or 45% of the
\* salary (to within a pound, as the test's toBeCloseTo): a flat rate on all income.
C1_FlatRateCodes ==
    (pc = "done" /\ NormalizedCode \in {<<"B", "R">>, <<"D", "0">>, <<"D", "1">>}) =>
        Within(result.annualSummary.totalIncomeTax,
               (Salary \div 100) * FlatRateOf(NormalizedCode), Num(1))

\* a standard code: neither a K-code nor a flat-rate / special code
StandardCode == info.specialCodeType = "undefined" /\ ~info.isNegativeAllowance

\* C2: for a standard code and either value of isCumulative the annual income tax
\* is, within a pound, the band tax of the region's table on
\* max(0, salary - annual personal allowance).
C2_ProgressiveAnnualTax ==
    (pc = "done" /\ StandardCode) =>
        Within(result.annualSummary.totalIncomeTax,
               calculateIncomeTax(
                   Max(0, Salary - calculatePersonalAllowance(Salary, info, taxYearData)),
                   Region),
               Num(1))

\* C3: for a K-code the income tax of every month is at most half of that month's
\* gross pay.
C3_KCodeTaxHalfOfGross ==
    (pc = "done" /\ info.isNegativeAllowance) =>
        \A m \in Months :
            2 * result.monthlyBreakdown[m].incomeTax <= result.monthlyBreakdown[m].gross

\* the month's income tax had the allowance been zero
ZeroAllowanceTax(m) ==
    MonthDetail(m, preciseDivide(Salary, Num(12)), 0, isCumulative, Region).incomeTax

\* C4: for a K-code the income tax attributed to the K-code addition in a period (the
\* period's tax less the period's tax with a zero allowance) is at most half of the
\* period's gross pay.
C4_KCodeAdditionCap ==
    (pc = "done" /\ info.isNegativeAllowance) =>
        \A m \in Months :
            2 * (result.monthlyBreakdown[m].incomeTax - ZeroAllowanceTax(m))
                <= result.monthlyBreakdown[m].gross

\* a K-code whose addition exceeds half the salary has been limited, and the addition
\* is taxed: month 1 carries more tax than with a zero allowance
C4_Witness ==
    /\ pc = "done"
    /\ taxCode = <<"K", "9", "9", "9", "9">>
    /\ annualSalary = Num(50000)
    /\ ~isCumulative
    /\ result.monthlyBreakdown[1].taxable = preciseDivide(Num(75000), Num(12))
    /\ result.monthlyBreakdown[1].incomeTax > ZeroAllowanceTax(1)

\* the allowance of the claim, in pounds: B, less min(B, floor((salary - threshold) * rate))
\* above the threshold
ExpectedAllowance(B, salaryPounds, thresholdPounds, ratePercent) ==
    IF salaryPounds <= thresholdPounds THEN B
    ELSE LET cut == ((salaryPounds - thresholdPounds) * ratePercent) \div 100
         IN  B - (IF B <= cut THEN B ELSE cut)

\* C6: with a non-negative base allowance B, calculatePersonalAllowance returns B up to
\* the taper threshold and B - min(B, floor((salary - threshold) * rate)) above it,
\* never less than 0; 2570 for 120000 with 1257L, and 0 from 125140.
C6_TaperedAllowance ==
    (pc = "done" /\ info.baseAllowance >= 0 /\ info.baseAllowance # Infinity) =>
        LET allowance == calculatePersonalAllowance(Salary, info, taxYearData)
        IN  /\ allowance = Num(ExpectedAllowance(info.baseAllowance, Salary \div 100,
                               taxYearData.config.paTaperThreshold \div 100,
                               taxYearData.config.paTaperRate))
            /\ allowance >= 0
            /\ (TCode = DefaultTaxCode /\ Salary = Num(120000)) => allowance = Num(2570)
            /\ (TCode = DefaultTaxCode /\ Salary >= Num(125140)) => allowance = 0
            /\ ~info.isNegativeAllowance =>
                   \A m \in Months :
                       result.monthlyBreakdown[m].taxFree = preciseDivide(allowance, Num(12))

\* 120000 with 1257L: each month's tax-free amount is 2570 / 12
C6_Witness ==
    /\ pc = "done"
    /\ taxCode = DefaultTaxCode
    /\ annualSalary = Num(120000)
    /\ result.monthlyBreakdown[1].taxFree = 21417

\* C7: for salary 120000 with tax code 1257L the annual income tax is 35488.
C7_HighIncomeScenario ==
    (pc = "done" /\ TCode = DefaultTaxCode /\ Salary = Num(120000)) =>
        Within(result.annualSummary.totalIncomeTax, Num(35488), Num(1))

-----------------------------------------------------------------------------
(* Claims about degenerate inputs of calculateTaxDetails *)

ZeroMonth(m) ==
    /\ result.monthlyBreakdown[m].incomeTax = 0
    /\ result.monthlyBreakdown[m].nationalInsurance = 0
    /\ result.monthlyBreakdown[m].netPay = 0

\* C11: for a NaN or negative annualSalary and every tax code the result is the one for
\* salary 0: gross, totalIncomeTax, totalNI and netAnnual are 0 and every month has
\* incomeTax 0, nationalInsurance 0 and netPay 0.
C11_InvalidSalaryAsZero ==
    (pc = "done" /\ (isNaN(annualSalary) \/ annualSalary < 0)) =>
        /\ result = calculateTaxDetails(0, taxCode, isCumulative, taxYearData)
        /\ result.annualSummary =
               [gross |-> 0, totalIncomeTax |-> 0, totalNI |-> 0, netAnnual |-> 0]
        /\ \A m \in Months : ZeroMonth(m)

\* a NaN salary with a K-code has been calculated
C11_Witness ==
    /\ pc = "done"
    /\ isNaN(annualSalary)
    /\ taxCode = <<"K", "4", "7", "5">>
    /\ result.annualSummary.gross = 0
    /\ ZeroMonth(12)

\* C12: called with an empty or whitespace-only tax code, calculateTaxDetails returns
\* the annual summary, monthly breakdown and bands of the call with tax code 1257L, for
\* every salary, either mode and every tax year.
C12_EmptyCodeAs1257L ==
    (pc = "done" /\ trim(taxCode) = <<>>) =>
        result = calculateTaxDetails(annualSalary, <<"1", "2", "5", "7", "L">>,
                                     isCumulative, taxYearData)

\* a whitespace-only code has been calculated for 50000, with tax to pay
C12_Witness ==
    /\ pc = "done"
    /\ taxCode = <<" ">>
    /\ annualSalary = Num(50000)
    /\ result.annualSummary.totalIncomeTax > 0
    /\ result.monthlyBreakdown[1].taxFree = preciseDivide(Num(12570), Num(12))

-----------------------------------------------------------------------------
(* calculateNI applied on its own, to a monthly salary and to one a step above it. *)
(* The arguments are in hundredths of a penny.                                     *)

Fine(pence) == pence * 100

MaxNISteps == 13000

\* whole pence up to 4810 pounds, amounts finer than a penny over the same range, every
\* hundredth of a penny around the two monthly thresholds, and the tests' arguments
NIGrosses ==
    {Fine(37 * k) : k \in 0..MaxNISteps}
      \cup {3701 * k : k \in 0..MaxNISteps}
      \cup {Fine(104740) + k : k \in 0..3000}
      \cup {Fine(418910) + k : k \in 0..3000}
      \cup {NaN, -Fine(10000), Fine(80000), Fine(300000), Fine(500000), Fine(600000)}

NISteps == {1, 100, 10000, 1000000}

HelperIdle ==
    /\ taxCode = <<>>
    /\ validation = Nothing
    /\ info = Nothing
    /\ annualSalary = 0
    /\ isCumulative = FALSE
    /\ taxYearData = Nothing
    /\ result = Nothing
    /\ cache = <<>>
    /\ online = TRUE

InitNI ==
    /\ pc = "ni"
    /\ args \in [monthlySalary : NIGrosses, step : NISteps]
    /\ returned = Nothing
    /\ HelperIdle

ApplyNI ==
    /\ pc = "ni"
    /\ returned' =
          [ ni |-> calculateNIAt(args.monthlySalary, 100),
            niAbove |->
                calculateNIAt(IF isNaN(args.monthlySalary) THEN NaN
                              ELSE args.monthlySalary + args.step, 100) ]
    /\ pc' = "niDone"
    /\ UNCHANGED <<taxCode, validation, info, annualSalary, isCumulative, taxYearData,
                   result, args>>
    /\ UNCHANGED <<cache, online>>

NextNI == ApplyNI

SpecNI == InitNI /\ [][NextNI]_vars

\* x <= PRIMARY_THRESHOLD.MONTHLY, the threshold being 12570 / 12 pounds
AtMostPrimaryThreshold(x) == 12 * x <= Fine(Num(RAW_PRIMARY_THRESHOLD))

\* C13: calculateNI(x) is non-decreasing in x for x >= 0, and 0 for every x up to the
\* monthly primary threshold, for non-positive and for NaN x; 800 gives 0.
C13_NIMonotone ==
    pc = "niDone" =>
        LET x == args.monthlySalary
        IN  /\ (~isNaN(x) /\ x >= 0) => returned.ni <= returned.niAbove
            /\ (isNaN(x) \/ x <= 0 \/ AtMostPrimaryThreshold(x)) => returned.ni = 0
            /\ x = Fine(80000) => returned.ni = 0

\* 3000 and 4000 pounds: NI is due on both, more on the larger
C13_Witness ==
    /\ pc = "niDone"
    /\ args = [monthlySalary |-> Fine(300000), step |-> 1000000]
    /\ returned.ni = 23430
    /\ returned.niAbove > returned.ni

\* 12% of min(x, UEL) - PT when x > PT, plus 2% of x - UEL when x > UEL, rounded to the
\* penny once; amounts in 1/6 of a hundredth of a penny, where both thresholds are whole
ExpectedNI(x) ==
    LET pt == RAW_PRIMARY_THRESHOLD * 5000
        uel == RAW_UPPER_EARNINGS_LIMIT * 5000
        main == IF 6 * x > pt THEN Min(6 * x, uel) - pt ELSE 0
        higher == IF 6 * x > uel THEN 6 * x - uel ELSE 0
    IN  RoundHalfUp((MAIN_RATE \div 2) * main + (HIGHER_RATE \div 2) * higher, 30000)

\* C14: for every monthly gross x > 0, calculateNI(x) is 12% of the earnings between the
\* monthly primary threshold and upper earnings limit plus 2% of the earnings above the
\* upper earnings limit, rounded to 2 decimals.
C14_NIFormula ==
    (pc = "niDone" /\ ~isNaN(args.monthlySalary) /\ args.monthlySalary > 0) =>
        returned.ni = ExpectedNI(args.monthlySalary)

\* C14, for a monthly gross of whole pence: calculateNI(x) is that amount.
C14_NIFormulaWholePence ==
    (pc = "niDone" /\ ~isNaN(args.monthlySalary) /\ args.monthlySalary > 0
        /\ args.monthlySalary % 100 = 0) =>
        returned.ni = ExpectedNI(args.monthlySalary)

\* 5000 pounds, above the upper earnings limit: 377.00 at 12% and 16.22 at 2%
C14_Witness ==
    /\ pc = "niDone"
    /\ args.monthlySalary = Fine(500000)
    /\ returned.ni = 39322

-----------------------------------------------------------------------------
(* Claims about National Insurance in calculateTaxDetails *)

NIEveryMonth(ni) ==
    /\ \A m \in Months : result.monthlyBreakdown[m].nationalInsurance = ni
    /\ result.annualSummary.totalNI = 12 * ni

\* C15: in every result nationalInsurance is the same in all 12 months and equals
\* calculateNI(salary / 12), whatever isCumulative, the tax code and the month, and
\* totalNI is 12 times that monthly value.
C15_NIOfSalaryTwelfth ==
    pc = "done" => NIEveryMonth(calculateNIAt(Salary, 12))

\* C15, with the monthly gross the result reports (salary / 12 rounded to the penny):
\* nationalInsurance is calculateNI(monthly gross) in all 12 months, whatever
\* isCumulative, the tax code and the month, and totalNI is 12 times that.
C15_NIOfMonthlyGross ==
    pc = "done" => NIEveryMonth(calculateNI(preciseDivide(Salary, Num(12))))

\* a cumulative K-code calculation for 60000: income tax varies, NI is 393.22 throughout
C15_Witness ==
    /\ pc = "done"
    /\ isCumulative
    /\ taxCode = <<"K", "4", "7", "5">>
    /\ annualSalary = Num(60000)
    /\ result.monthlyBreakdown[1].nationalInsurance = 39322
    /\ result.monthlyBreakdown[12].nationalInsurance = 39322
    /\ result.annualSummary.totalNI = 12 * 39322

-----------------------------------------------------------------------------
(* Claims about the NT code *)

NumericFields(m) ==
    { result.monthlyBreakdown[m].gross, result.monthlyBreakdown[m].taxFree,
      result.monthlyBreakdown[m].taxable, result.monthlyBreakdown[m].incomeTax,
      result.monthlyBreakdown[m].nationalInsurance, result.monthlyBreakdown[m].netPay }

SummaryFields ==
    { result.annualSummary.gross, result.annualSummary.totalIncomeTax,
      result.annualSummary.totalNI, result.annualSummary.netAnnual }

\* C16: for tax code NT, every salary and either mode, every month's taxable and
\* incomeTax are 0, totalIncomeTax is 0, and no numeric field of the annual summary or
\* of the monthly breakdown is NaN.
C16_NoTaxCode ==
    (pc = "done" /\ NormalizedCode = <<"N", "T">>) =>
        /\ \A m \in Months :
              /\ result.monthlyBreakdown[m].taxable = 0
              /\ result.monthlyBreakdown[m].incomeTax = 0
              /\ NaN \notin NumericFields(m)
        /\ result.annualSummary.totalIncomeTax = 0
        /\ NaN \notin SummaryFields

\* NT at 120000, above the taper threshold, cumulative: the allowance is still infinite
C16_Witness ==
    /\ pc = "done"
    /\ taxCode = <<"N", "T">>
    /\ annualSalary = Num(120000)
    /\ isCumulative
    /\ info.baseAllowance = Infinity
    /\ result.monthlyBreakdown[12].taxFree = Infinity
    /\ result.monthlyBreakdown[12].incomeTax = 0
    /\ result.monthlyBreakdown[12].netPay > 0

-----------------------------------------------------------------------------
(* A precise helper applied on its own *)

MaxOperand == 10

\* NaN, both infinities, 0, small amounts of either sign (pence), 5, 7 and 1000 pounds
Operands ==
    {NaN, Infinity, -Infinity} \cup (-MaxOperand..MaxOperand)
      \cup {Num(5), Num(7), Num(1000)}

PreciseOps == {"preciseAdd", "preciseSubtract", "preciseMultiply", "preciseDivide"}

ApplyOp(op, a, b) ==
    CASE op = "preciseAdd" -> preciseAdd(a, b)
      [] op = "preciseSubtract" -> preciseSubtract(a, b)
      [] op = "preciseMultiply" -> preciseMultiply(a, b)
      [] op = "preciseDivide" -> preciseDivide(a, b)

InitPrecise ==
    /\ pc = "precise"
    /\ args \in [op : PreciseOps, a : Operands, b : Operands]
    /\ returned = Nothing
    /\ HelperIdle

ApplyPrecise ==
    /\ pc = "precise"
    /\ returned' = ApplyOp(args.op, args.a, args.b)
    /\ pc' = "preciseDone"
    /\ UNCHANGED <<taxCode, validation, info, annualSalary, isCumulative, taxYearData,
                   result, args>>
    /\ UNCHANGED <<cache, online>>

NextPrecise == ApplyPrecise

SpecPrecise == InitPrecise /\ [][NextPrecise]_vars

NaNAsZero(x) == IF isNaN(x) THEN 0 ELSE x

\* C17: for preciseAdd, preciseSubtract, preciseMultiply and preciseDivide a NaN operand
\* is treated as 0 before the operation: op(NaN, b) = op(0, b) and op(a, NaN) = op(a, 0);
\* preciseAdd(NaN, 5) = 5 and preciseSubtract(7, NaN) = 7.
C17_NaNOperandAsZero ==
    (pc = "preciseDone" /\ (isNaN(args.a) \/ isNaN(args.b))) =>
        returned = ApplyOp(args.op, NaNAsZero(args.a), NaNAsZero(args.b))

-----------------------------------------------------------------------------
(* calculateTaxBands and calculateIncomeTax applied on their own to an amount and a   *)
(* band table                                                                          *)

MaxBandSteps == 80

\* whole pounds on a grid of 2500, amounts of a few pence, and the band edges
BandAmounts ==
    {Num(k * 2500) : k \in 0..MaxBandSteps}
      \cup {1, 3, 333, Num(1), Num(1000), Num(12570), Num(12571), Num(37700),
            Num(50270), Num(125140), Num(125141)} \cup {Num(60000) - 105}

BandRates == {0, 10, 20, 45}

BandWidths == {1, 1000, 37700}

\* the tables of the tax years, and every one- and two-band table over a few rates and
\* widths
BandTables ==
    {UK_TAX_BANDS, TaxableIncomeBands, ScottishBands}
      \cup {<<LastBand("All", r, 0)>> : r \in BandRates}
      \cup {<<Band("Lower", r[1], 0, w), LastBand("Upper", r[2], w)>> :
               r \in BandRates \X BandRates, w \in BandWidths}

InitBands ==
    /\ pc = "bands"
    /\ args \in [amount : BandAmounts, personalAllowance : {0, Num(12570)},
                  table : BandTables]
    /\ returned = Nothing
    /\ HelperIdle

ApplyBands ==
    /\ pc = "bands"
    /\ LET taxRegion == [name |-> "UK", bands |-> args.table]
       IN  returned' =
               [ bands |-> calculateTaxBands(args.amount, args.personalAllowance, taxRegion),
                 totalTax |-> calculateIncomeTax(args.amount, taxRegion) ]
    /\ pc' = "bandsDone"
    /\ UNCHANGED <<taxCode, validation, info, annualSalary, isCumulative, taxYearData,
                   result, args>>
    /\ UNCHANGED <<cache, online>>

NextBands == ApplyBands

SpecBands == InitBands /\ [][NextBands]_vars

RECURSIVE SumField(_, _)
SumField(entries, field) ==
    IF Len(entries) = 0 THEN 0
    ELSE entries[1][field] + SumField(Tail(entries), field)

\* C18: for a non-negative amount and an ascending table whose last band is unbounded,
\* the per-band amounts of calculateTaxBands sum to the amount and the per-band taxes
\* sum to the total of calculateIncomeTax for the same amount and table.
C18_BandSums ==
    pc = "bandsDone" =>
        /\ SumField(returned.bands, "amount") = args.amount
        /\ SumField(returned.bands, "tax") = returned.totalTax

\* 60000 over the Scottish table: four bands hold part of the amount, with tax
C18_Witness ==
    /\ pc = "bandsDone"
    /\ args.amount = Num(60000)
    /\ args.table = ScottishBands
    /\ Len(returned.bands) = 4
    /\ returned.bands[4].amount = Num(60000 - 31092)
    /\ returned.totalTax > 0

GapFree(table) ==
    /\ table[1].from = 0
    /\ \A i \in 1..(Len(table) - 1) :
          ~table[i].toIsString /\ table[i + 1].from = table[i].to
    /\ table[Len(table)].toIsString

\* C19: UK_TAX_BANDS is ascending, non-overlapping and gap-free over [0, infinity): the
\* first band starts at 0, the from of every later band is the to of the band before,
\* and the last band is unbounded.
C19_UKBandsGapFree ==
    (pc = "bandsDone" /\ args.table = UK_TAX_BANDS) => GapFree(args.table)

-----------------------------------------------------------------------------
(* validateNIThresholds (niThresholdHandler.ts); thresholds in whole pounds.  An      *)
(* absent argument or group is Nothing, an absent value is Undefined.                 *)

Undefined == -777777777

DEFAULT_THRESHOLDS ==
    [ PRIMARY_THRESHOLD |-> [WEEKLY |-> 242, MONTHLY |-> 1048, ANNUAL |-> 12576],
      UPPER_EARNINGS_LIMIT |-> [WEEKLY |-> 967, MONTHLY |-> 4189, ANNUAL |-> 50268] ]

\* validateThresholdValue throws unless the value is a number, not NaN and not negative
ThresholdValueThrows(value) == value = Undefined \/ isNaN(value) \/ value < 0

ThresholdGroupThrows(group) ==
    /\ group # Nothing
    /\ \/ ThresholdValueThrows(group.WEEKLY)
       \/ ThresholdValueThrows(group.MONTHLY)
       \/ ThresholdValueThrows(group.ANNUAL)

\* validateThresholdGroup, when it does not throw
validateThresholdGroup(group, groupName) ==
    IF group = Nothing THEN DEFAULT_THRESHOLDS[groupName] ELSE group

\* Math.abs(periodToAnnual - ANNUAL) / ANNUAL > 0.01; x / 0 is Infinity, 0 / 0 is NaN
Misaligned(periodToAnnual, annual) ==
    IF annual = 0 THEN periodToAnnual # 0
    ELSE Abs(periodToAnnual - annual) * 100 > annual

validatePeriodRelationships(group, groupName) ==
    (IF Misaligned(group.WEEKLY * 52, group.ANNUAL)
     THEN <<groupName \o " weekly value does not align with annual value">> ELSE <<>>)
    \o
    (IF Misaligned(group.MONTHLY * 12, group.ANNUAL)
     THEN <<groupName \o " monthly value does not align with annual value">> ELSE <<>>)

\* the warnings validateThresholdRelationships pushes
validateThresholdRelationships(thresholds) ==
    (IF thresholds.PRIMARY_THRESHOLD.ANNUAL >= thresholds.UPPER_EARNINGS_LIMIT.ANNUAL
     THEN <<"PRIMARY_THRESHOLD should be less than UPPER_EARNINGS_LIMIT">> ELSE <<>>)
    \o validatePeriodRelationships(thresholds.PRIMARY_THRESHOLD, "PRIMARY_THRESHOLD")
    \o validatePeriodRelationships(thresholds.UPPER_EARNINGS_LIMIT, "UPPER_EARNINGS_LIMIT")

validateNIThresholds(thresholds) ==
    IF thresholds = Nothing
    THEN [thresholds |-> DEFAULT_THRESHOLDS, status |-> "fallback",
          warnings |-> <<"Using default thresholds">>, threw |-> FALSE]
    ELSE IF ThresholdGroupThrows(thresholds.PRIMARY_THRESHOLD)
            \/ ThresholdGroupThrows(thresholds.UPPER_EARNINGS_LIMIT)
    THEN [thresholds |-> DEFAULT_THRESHOLDS, status |-> "error",
          warnings |-> <<"Error processing thresholds, using defaults">>, threw |-> FALSE]
    ELSE LET validatedThresholds ==
                 [ PRIMARY_THRESHOLD |->
                       validateThresholdGroup(thresholds.PRIMARY_THRESHOLD,
                                              "PRIMARY_THRESHOLD"),
                   UPPER_EARNINGS_LIMIT |->
                       validateThresholdGroup(thresholds.UPPER_EARNINGS_LIMIT,
                                              "UPPER_EARNINGS_LIMIT") ]
             warnings == validateThresholdRelationships(validatedThresholds)
         IN  [thresholds |-> validatedThresholds,
              status |-> IF Len(warnings) > 0 THEN "fallback" ELSE "success",
              warnings |-> warnings, threw |-> FALSE]

\* a group: absent, or its three values, each absent, invalid, or one of the defaults'
ThresholdGroups ==
    {Nothing} \cup
    [ WEEKLY : {Undefined, NaN, -1, 0, 242, 967},
      MONTHLY : {Undefined, 0, 1048, 4189},
      ANNUAL : {Undefined, NaN, 0, 12576, 50268} ]

ThresholdInputs ==
    {Nothing} \cup
    [PRIMARY_THRESHOLD : ThresholdGroups, UPPER_EARNINGS_LIMIT : ThresholdGroups]

InitThresholds ==
    /\ pc = "thresholds"
    /\ args \in ThresholdInputs
    /\ returned = Nothing
    /\ HelperIdle

ApplyThresholds ==
    /\ pc = "thresholds"
    /\ returned' = validateNIThresholds(args)
    /\ pc' = "thresholdsDone"
    /\ UNCHANGED <<taxCode, validation, info, annualSalary, isCumulative, taxYearData,
                   result, args>>
    /\ UNCHANGED <<cache, online>>

NextThresholds == ApplyThresholds

SpecThresholds == InitThresholds /\ [][NextThresholds]_vars

Granularities == {"WEEKLY", "MONTHLY", "ANNUAL"}

WithinOnePercent(periodToAnnual, annual) ==
    Abs(periodToAnnual - annual) * 100 <= annual

\* C20: whatever thresholds are supplied, validateNIThresholds does not throw and the
\* thresholds it returns have PRIMARY_THRESHOLD < UPPER_EARNINGS_LIMIT at WEEKLY, MONTHLY
\* and ANNUAL granularity, with WEEKLY x 52 and MONTHLY x 12 within 1% of ANNUAL.
C20_ThresholdInvariant ==
    pc = "thresholdsDone" =>
        /\ ~returned.threw
        /\ \A g \in Granularities :
              returned.thresholds.PRIMARY_THRESHOLD[g]
                  < returned.thresholds.UPPER_EARNINGS_LIMIT[g]
        /\ \A t \in {"PRIMARY_THRESHOLD", "UPPER_EARNINGS_LIMIT"} :
              /\ WithinOnePercent(returned.thresholds[t].WEEKLY * 52,
                                  returned.thresholds[t].ANNUAL)
              /\ WithinOnePercent(returned.thresholds[t].MONTHLY * 12,
                                  returned.thresholds[t].ANNUAL)

-----------------------------------------------------------------------------
(* The verification and period calculators (TaxVerificationCalculator.tsx,            *)
(* PeriodTaxCalculator.tsx): the `calculation` each computes from its inputs.  They   *)
(* take the annual figures of calculateTaxDetails and scale them by the period        *)
(* factor, without rounding; the amounts of a calculation are therefore kept as       *)
(* numerators over 2 * totalPeriods, in pence.  The student loan plan is "none" and   *)
(* the pension contribution 0, their initial values.                                  *)

MaxPeriodSteps == 26

TotalPeriods(periodType) == IF periodType = "month" THEN 12 ELSE 52

PeriodNumbers(periodType) == IF periodType = "month" THEN {1, 6, 12} ELSE {1, 26, 52}

\* annual amounts every period divides into whole pence
AnnualAmounts == {Num(3900 * k) : k \in 0..MaxPeriodSteps}

PeriodCodes ==
    { DefaultTaxCode, <<"B", "R">>, <<"K", "4", "7", "5">>, <<"K", "9", "9", "9", "9">>,
      <<"k", "9", "9", "9">> }

\* what was earned in the period: the share of an annual amount, or a negative entry
EarnedAmounts(periodType, periodNumber, cumulative) ==
    {(IF cumulative THEN a * periodNumber ELSE a) \div TotalPeriods(periodType) :
        a \in AnnualAmounts} \cup {-Num(100)}

InitPeriod ==
    /\ pc = "period"
    /\ \E calculator \in {"verification", "period"}, periodType \in {"month", "week"},
          cumulative \in BOOLEAN, code \in PeriodCodes,
          isScottishTaxPayer \in BOOLEAN, overStatePensionAge \in BOOLEAN :
          \E periodNumber \in PeriodNumbers(periodType) :
             \E earnedAmount \in EarnedAmounts(periodType, periodNumber, cumulative) :
                /\ calculator = "verification" =>
                       ~isScottishTaxPayer /\ ~overStatePensionAge
                /\ args = [ calculator |-> calculator, earnedAmount |-> earnedAmount,
                            periodType |-> periodType, periodNumber |-> periodNumber,
                            isCumulative |-> cumulative, taxCode |-> code,
                            isScottishTaxPayer |-> isScottishTaxPayer,
                            overStatePensionAge |-> overStatePensionAge ]
    /\ returned = Nothing
    /\ HelperIdle

\* effectiveTaxCode of the period calculator
EffectiveTaxCode(code, isScottishTaxPayer) ==
    IF isScottishTaxPayer /\ ~startsWith(code, <<"S">>) THEN <<"S">> \o code ELSE code

\* the `calculation` of either calculator; the verification calculator reports no net
\* pay and no National Insurance
Calculation(a, taxDetails) ==
    LET totalPeriods == TotalPeriods(a.periodType)
        factor == IF a.isCumulative THEN 2 * a.periodNumber ELSE 2
        periodTax == taxDetails.annualSummary.totalIncomeTax * factor
        periodNI ==
            IF a.overStatePensionAge THEN 0 ELSE taxDetails.annualSummary.totalNI * factor
        isKCode ==
            includes(toUpperCase(EffectiveTaxCode(a.taxCode, a.isScottishTaxPayer)), <<"K">>)
        halfOfEarned == a.earnedAmount * totalPeriods
        netPay == 2 * halfOfEarned - periodTax - periodNI
        finalTax == IF isKCode /\ periodTax > halfOfEarned THEN halfOfEarned ELSE periodTax
    IN  [ periodTax |-> periodTax, expectedTax |-> finalTax, nationalInsurance |-> periodNI,
          netPay |-> netPay, isKCode |-> isKCode ]

\* annualizedAmount: earned / periodNumber * totalPeriods, or earned * totalPeriods
AnnualizedAmount(a) ==
    IF a.isCumulative
    THEN (a.earnedAmount * TotalPeriods(a.periodType)) \div a.periodNumber
    ELSE a.earnedAmount * TotalPeriods(a.periodType)

Calculate ==
    /\ pc = "period"
    /\ \E data \in TaxYears :
          /\ taxYearData' = data
          /\ returned' =
                Calculation(args,
                    calculateTaxDetails(AnnualizedAmount(args),
                        EffectiveTaxCode(args.taxCode, args.isScottishTaxPayer),
                        args.isCumulative, data))
    /\ pc' = "periodDone"
    /\ UNCHANGED <<taxCode, validation, info, annualSalary, isCumulative, result, args>>
    /\ UNCHANGED <<cache, online>>

NextPeriod == Calculate

SpecPeriod == InitPeriod /\ [][NextPeriod]_vars

\* the numerators of the earned amount and of half of it
EarnedTwice == 2 * args.earnedAmount * TotalPeriods(args.periodType)

ClampedTax == Min(returned.periodTax, EarnedTwice \div 2)

\* C21: in the verification and period calculators, for a K-code, the reported
\* expectedTax is min(periodTax, 0.5 * earnedAmount), and so is the income tax deducted
\* in the reported netPay.
C21_KCodeEffectiveTax ==
    (pc = "periodDone" /\ returned.isKCode) =>
        /\ returned.expectedTax = ClampedTax
        /\ args.calculator = "period" =>
               EarnedTwice - returned.nationalInsurance - returned.netPay = ClampedTax

\* the same for the entries a payslip can carry, an earned amount above 0
C21_PositiveEarnings ==
    (pc = "periodDone" /\ returned.isKCode /\ args.earnedAmount > 0) =>
        /\ returned.expectedTax = ClampedTax
        /\ args.calculator = "period" =>
               EarnedTwice - returned.nationalInsurance - returned.netPay = ClampedTax

-----------------------------------------------------------------------------
(* The memoized calculateTaxDetails: lodash memoize keeps, under the resolver's       *)
(* string key, the promise the async function returned, whatever becomes of it.       *)
(* `args` is the sequence of calls made, `returned` what each was handed, `cache`     *)
(* the promises in insertion order, `taxYearData` the configuration of the known      *)
(* tax year.  Salaries are whole pounds.                                              *)

MaxCalls == 2

KnownTaxYear == <<"2", "0", "2", "4", "-", "2", "5">>

MemoCodes == {<<"B", "R">>, <<"B", "R", "_", "t", "r", "u", "e">>}

MemoTaxYears == {KnownTaxYear, <<"f", "a", "l", "s", "e", "_">> \o KnownTaxYear}

\* calls for one salary without a current period, and two calls that differ in those
MemoArgs ==
    [ annualSalary : {Num(30000)}, taxCode : MemoCodes, isCumulative : BOOLEAN,
      taxYear : MemoTaxYears, currentPeriod : {Nothing} ]
      \cup { [ annualSalary |-> Num(60000), taxCode |-> DefaultTaxCode,
               isCumulative |-> TRUE, taxYear |-> KnownTaxYear, currentPeriod |-> Nothing ],
             [ annualSalary |-> Num(30000), taxCode |-> <<"B", "R">>,
               isCumulative |-> TRUE, taxYear |-> KnownTaxYear,
               currentPeriod |-> [type |-> "month", number |-> 1] ] }

\* the resolver: `${salary}_${taxCode}_${isCumulative}_${taxYear}_${period or 'none'}`
Resolver(a) ==
    ToDecimal(a.annualSalary \div 100) \o <<"_">> \o a.taxCode \o <<"_">>
      \o (IF a.isCumulative THEN <<"t", "r", "u", "e">> ELSE <<"f", "a", "l", "s", "e">>)
      \o <<"_">> \o a.taxYear \o <<"_">>
      \o (IF a.currentPeriod = Nothing THEN <<"n", "o", "n", "e">>
          ELSE (IF a.currentPeriod.type = "month" THEN <<"m", "o", "n", "t", "h">>
                ELSE <<"w", "e", "e", "k">>)
                 \o <<"_">> \o ToDecimal(a.currentPeriod.number))

\* getTaxYearData(taxYear) finds a configuration
LookupSucceeds(taxYear) == online /\ taxYear = KnownTaxYear

\* cache.has(key)
Cached(key) == \E i \in 1..Len(cache) : cache[i].key = key

\* the index of the promise cache.get(key)
CacheIndex(key) == CHOOSE i \in 1..Len(cache) : cache[i].key = key

InitMemo ==
    /\ pc = "memo"
    /\ taxCode = <<>>
    /\ validation = Nothing
    /\ info = Nothing
    /\ annualSalary = 0
    /\ isCumulative = FALSE
    /\ taxYearData \in TaxYears
    /\ result = Nothing
    /\ args = <<>>
    /\ returned = <<>>
    /\ cache = <<>>
    /\ online = TRUE

\* a call whose key is in the cache is handed the promise kept there
CallCached ==
    /\ Len(args) < MaxCalls
    /\ \E a \in MemoArgs :
          /\ Cached(Resolver(a))
          /\ args' = Append(args, a)
          /\ returned' =
                Append(returned,
                       [ promise |-> CacheIndex(Resolver(a)),
                         stateAtReturn |-> cache[CacheIndex(Resolver(a))].state,
                         configAvailable |-> LookupSucceeds(a.taxYear) ])
    /\ UNCHANGED <<pc, taxCode, validation, info, annualSalary, isCumulative, taxYearData,
                   result, cache, online>>

\* any other call starts the async function, which suspends at the lookup, and its
\* pending promise is put in the cache
CallFresh ==
    /\ Len(args) < MaxCalls
    /\ \E a \in MemoArgs :
          /\ ~Cached(Resolver(a))
          /\ args' = Append(args, a)
          /\ cache' = Append(cache, [key |-> Resolver(a), state |-> "pending", of |-> a])
          /\ returned' =
                Append(returned,
                       [ promise |-> Len(cache) + 1, stateAtReturn |-> "pending",
                         configAvailable |-> LookupSucceeds(a.taxYear) ])
    /\ UNCHANGED <<pc, taxCode, validation, info, annualSalary, isCumulative, taxYearData,
                   result, online>>

\* the lookup of a pending computation finds the configuration: it runs to its return
Fulfil ==
    /\ \E i \in 1..Len(cache) :
          /\ cache[i].state = "pending"
          /\ LookupSucceeds(cache[i].of.taxYear)
          /\ cache' =
                [cache EXCEPT ![i] =
                    [ key |-> cache[i].key, state |-> "fulfilled", of |-> cache[i].of,
                      value |->
                          calculateTaxDetailsIn(cache[i].of.annualSalary, cache[i].of.taxCode,
                              cache[i].of.isCumulative, taxYearData,
                              cache[i].of.currentPeriod) ]]
    /\ UNCHANGED <<pc, taxCode, validation, info, annualSalary, isCumulative, taxYearData,
                   result, args, returned, online>>

\* the lookup of a pending computation fails: the promise is rejected, and stays cached
Reject ==
    /\ \E i \in 1..Len(cache) :
          /\ cache[i].state = "pending"
          /\ ~LookupSucceeds(cache[i].of.taxYear)
          /\ cache' = [cache EXCEPT ![i].state = "rejected"]
    /\ UNCHANGED <<pc, taxCode, validation, info, annualSalary, isCumulative, taxYearData,
                   result, args, returned, online>>

\* the configuration source becomes unreachable
Outage ==
    /\ online
    /\ online' = FALSE
    /\ UNCHANGED <<pc, taxCode, validation, info, annualSalary, isCumulative, taxYearData,
                   result, args, returned, cache>>

\* and reachable again
Restore ==
    /\ ~online
    /\ online' = TRUE
    /\ UNCHANGED <<pc, taxCode, validation, info, annualSalary, isCumulative, taxYearData,
                   result, args, returned, cache>>

NextMemo == CallCached \/ CallFresh \/ Fulfil \/ Reject \/ Outage \/ Restore

SpecMemo == InitMemo /\ [][NextMemo]_vars

\* what a computation of its own gives a call once the configuration can be fetched
FreshResult(a) ==
    IF a.taxYear = KnownTaxYear
    THEN [ state |-> "fulfilled",
           value |-> calculateTaxDetailsIn(a.annualSalary, a.taxCode, a.isCumulative,
                                           taxYearData, a.currentPeriod) ]
    ELSE [ state |-> "rejected" ]

\* call i was handed a settled promise that is not what its own computation gives
ServedAnother(i) ==
    LET p == cache[returned[i].promise]
    IN  \/ p.state = "fulfilled" /\ FreshResult(args[i]) # [state |-> "fulfilled", value |-> p.value]
        \/ returned[i].stateAtReturn = "rejected" /\ returned[i].configAvailable

\* C22: memoization is transparent: every call, repeated and concurrently pending
\* ones with the same key included, gets what a computation with its own arguments
\* gives, and calls with different arguments share a cached promise only if their own
\* computations give equal results.
C22_MemoTransparent ==
    pc = "memo" =>
        /\ \A i \in 1..Len(args) : ~ServedAnother(i)
        /\ \A i, j \in 1..Len(args) :
              (returned[i].promise = returned[j].promise /\ args[i] # args[j]) =>
                  FreshResult(args[i]) = FreshResult(args[j])

\* the part of it about calls with different arguments
C22_DistinctArgsDistinctKeys ==
    pc = "memo" =>
        \A i, j \in 1..Len(args) :
            (returned[i].promise = returned[j].promise /\ args[i] # args[j]) =>
                FreshResult(args[i]) = FreshResult(args[j])

\* the part of it about calls with the same arguments, while the source is reachable
C22_SameArgsSameResult ==
    pc = "memo" =>
        \A i \in 1..Len(args) :
            LET p == cache[returned[i].promise]
            IN  (p.of = args[i] /\ p.state = "fulfilled") =>
                    FreshResult(args[i]) = [state |-> "fulfilled", value |-> p.value]

\* C28: a failed calculation is not cached: a call made when the configuration of its
\* tax year can be fetched is never handed the rejected promise of an earlier call with
\* the same arguments.
C28_FailureNotCached ==
    pc = "memo" =>
        \A i \in 1..Len(args) :
            (returned[i].configAvailable /\ cache[returned[i].promise].of = args[i]) =>
                returned[i].stateAtReturn # "rejected"

-----------------------------------------------------------------------------
(* Calls of calculateTaxDetails with a currentPeriod: the same call as in Spec, with  *)
(* `args` holding the optional argument.                                              *)

MaxCurrentSteps == 12

CurrentSalaries ==
    {Num(k * 10000) : k \in 0..MaxCurrentSteps} \cup {Num(12570), Num(60000) - 105}

CurrentCodes ==
    { DefaultTaxCode, <<"B", "R">>, <<"N", "T">>, <<"K", "4", "7", "5">>,
      <<"S", "1", "2", "5", "7", "L">> }

\* every month, and the weeks around the month boundaries of the code
CurrentPeriods ==
    {[type |-> "month", number |-> n] : n \in 1..12}
      \cup {[type |-> "week", number |-> n] : n \in {1, 4, 5, 8, 9, 26, 47, 48, 52}}

InitCurrent ==
    /\ pc = "idle"
    /\ taxCode \in CurrentCodes
    /\ annualSalary \in CurrentSalaries
    /\ isCumulative \in BOOLEAN
    /\ validation = Nothing
    /\ info = Nothing
    /\ taxYearData = Nothing
    /\ result = Nothing
    /\ args \in {Nothing} \cup {[currentPeriod |-> p] : p \in CurrentPeriods}
    /\ returned = Nothing
    /\ cache = <<>>
    /\ online = TRUE

SpecCurrent == InitCurrent /\ [][Next]_vars

\* the 12 months as computed, before any current-period adjustment
ComputedMonths ==
    calculateTaxDetails(annualSalary, taxCode, isCumulative, taxYearData).monthlyBreakdown

\* C23 as stated: in every result, with or without currentPeriod, totalIncomeTax is
\* the sum of incomeTax over the 12 returned months and totalNI the sum of their
\* nationalInsurance.
C23_TotalsOfReturnedMonths ==
    pc = "done" =>
        /\ result.annualSummary.totalIncomeTax = SumOver(result.monthlyBreakdown, "incomeTax", 12)
        /\ result.annualSummary.totalNI =
              SumOver(result.monthlyBreakdown, "nationalInsurance", 12)

\* C23: the totals are the sums over the 12 months as computed; they are the sums
\* over the returned months when no currentPeriod is supplied or the calculation is
\* non-cumulative.
C23_TotalsOfComputedMonths ==
    pc = "done" =>
        LET computed == ComputedMonths
        IN  /\ result.annualSummary.totalIncomeTax = SumOver(computed, "incomeTax", 12)
            /\ result.annualSummary.totalNI = SumOver(computed, "nationalInsurance", 12)
            /\ (args = Nothing \/ ~isCumulative) =>
                  /\ result.annualSummary.totalIncomeTax =
                        SumOver(result.monthlyBreakdown, "incomeTax", 12)
                  /\ result.annualSummary.totalNI =
                        SumOver(result.monthlyBreakdown, "nationalInsurance", 12)

\* a cumulative result whose later months were overwritten with other amounts
C23_Witness ==
    /\ pc = "done"
    /\ args # Nothing
    /\ isCumulative
    /\ result.monthlyBreakdown # ComputedMonths
    /\ result.annualSummary.totalIncomeTax > 0

\* months in which a week can be said to fall: week * 12 / 52 rounded down or up
MonthsOfPeriod(currentPeriod) ==
    IF currentPeriod.type = "month" THEN {currentPeriod.number}
    ELSE { (currentPeriod.number * 12) \div 52, ((currentPeriod.number * 12) + 51) \div 52 }
           \cap (1..12)

\* the returned months are the computed ones, frozen after month c
FrozenAfter(c) ==
    LET computed == ComputedMonths
    IN  \A m \in Months :
            /\ result.monthlyBreakdown[m].gross = computed[m].gross
            /\ result.monthlyBreakdown[m].taxFree = computed[m].taxFree
            /\ result.monthlyBreakdown[m].taxable = computed[m].taxable
            /\ m <= c => result.monthlyBreakdown[m] = computed[m]
            /\ m > c =>
                  /\ result.monthlyBreakdown[m].incomeTax = computed[c].incomeTax
                  /\ result.monthlyBreakdown[m].nationalInsurance =
                        computed[c].nationalInsurance
                  /\ result.monthlyBreakdown[m].netPay = computed[c].netPay

\* C24: with a currentPeriod of month 1..12 or week 1..52, every month after the
\* current period's month has the current month's incomeTax, nationalInsurance and
\* netPay; the months up to it, and every month's gross, taxFree and taxable, are as
\* computed.
C24_FreezeForward ==
    (pc = "done" /\ args # Nothing) =>
        \E c \in MonthsOfPeriod(args.currentPeriod) : FrozenAfter(c)

\* the same for a currentPeriod that is a month
C24_FreezeForwardOfMonth ==
    (pc = "done" /\ args # Nothing /\ args.currentPeriod.type = "month") =>
        FrozenAfter(args.currentPeriod.number)

\* C25: in every result, with or without currentPeriod, each month has
\* netPay = gross - (incomeTax + nationalInsurance), and
\* netAnnual = gross - (totalIncomeTax + totalNI).
C25_NetPayIdentity ==
    pc = "done" =>
        /\ \A m \in Months :
              result.monthlyBreakdown[m].netPay =
                  result.monthlyBreakdown[m].gross
                    - (result.monthlyBreakdown[m].incomeTax
                         + result.monthlyBreakdown[m].nationalInsurance)
        /\ result.annualSummary.netAnnual =
              result.annualSummary.gross
                - (result.annualSummary.totalIncomeTax + result.annualSummary.totalNI)

\* a result in which month 12 was overwritten with the amounts of an earlier month
C25_Witness ==
    /\ pc = "done"
    /\ args # Nothing
    /\ result.monthlyBreakdown[12].incomeTax # ComputedMonths[12].incomeTax
    /\ result.monthlyBreakdown[12].netPay # ComputedMonths[12].netPay

-----------------------------------------------------------------------------
(* Claims about the band allocations of a result *)

\* the annual taxable amount: max(0, salary - annual allowance)
AnnualTaxable == Max(0, preciseSubtract(Salary, AdjustedAllowance(Salary, info, taxYearData)))

\* C26: the incomeTaxBands of a result allocate the annual taxable amount
\* max(0, salary - annual allowance): for every tax code their amounts sum to it and
\* their taxes sum to the annual income tax due on it.
C26_BandsOfTaxableAmount ==
    pc = "done" =>
        /\ SumField(result.incomeTaxBands, "amount") = AnnualTaxable
        /\ SumField(result.incomeTaxBands, "tax") = calculateIncomeTax(AnnualTaxable, Region)

\* what the bands do allocate: the salary
C26_BandsOfSalary ==
    pc = "done" =>
        /\ SumField(result.incomeTaxBands, "amount") = Salary
        /\ SumField(result.incomeTaxBands, "tax") = calculateIncomeTax(Salary, Region)

\* C27: for a K-code the high-income taper never shrinks the K-code addition: for
\* every salary, above paTaperThreshold too, calculatePersonalAllowance returns the
\* descriptor's negative baseAllowance unchanged.
C27_TaperKeepsKCodeAddition ==
    (pc = "done" /\ info.isNegativeAllowance) =>
        calculatePersonalAllowance(Salary, info, taxYearData) = AllowanceOf(info)

\* the same for the salaries the taper does not reach
C27_BelowTaperThreshold ==
    (pc = "done" /\ info.isNegativeAllowance
       /\ Salary <= taxYearData.config.paTaperThreshold) =>
        calculatePersonalAllowance(Salary, info, taxYearData) = AllowanceOf(info)

-----------------------------------------------------------------------------
(* The tax-code validators side by side: validateTaxCode, validateAndProcessTaxCode, *)
(* the form schema taxCodeSchema and the inline check of the period calculator page. *)

\* isSpecialCode(code)
isSpecialCode(code) == code \in SpecialCodes

\* validateAndProcessTaxCode(taxCode), without the band table and the message text
validateAndProcessTaxCode(code) ==
    IF Len(code) = 0 \/ Len(trim(code)) = 0
    THEN [valid |-> FALSE, region |-> "UK", allowance |-> 0, isKCode |-> FALSE]
    ELSE
      LET normalizedCode == trim(toUpperCase(code))
          prefix ==
              IF startsWith(normalizedCode, <<"S", "K">>) THEN <<"S", "K">>
              ELSE IF startsWith(normalizedCode, <<"C", "K">>) THEN <<"C", "K">>
              ELSE IF startsWith(normalizedCode, <<"S">>) THEN <<"S">>
              ELSE IF startsWith(normalizedCode, <<"C">>) THEN <<"C">>
              ELSE IF startsWith(normalizedCode, <<"K">>) THEN <<"K">>
              ELSE <<>>
          region ==
              IF prefix \in {<<"S", "K">>, <<"S">>} THEN "Scotland"
              ELSE IF prefix \in {<<"C", "K">>, <<"C">>} THEN "Wales" ELSE "UK"
          isKCode == prefix \in {<<"S", "K">>, <<"C", "K">>, <<"K">>}
          codeToProcess == substring(normalizedCode, Len(prefix))
          numericMatch == MatchDigits(normalizedCode)
      IN  IF isKCode /\ ~(Len(codeToProcess) \in 1..3 /\ AllDigits(codeToProcess))
              THEN [valid |-> FALSE, region |-> region, allowance |-> 0, isKCode |-> TRUE]
          ELSE IF ~isKCode /\ ~isSpecialCode(normalizedCode)
                    /\ ~validateTaxCode(normalizedCode).isValid
              THEN [valid |-> FALSE, region |-> region, allowance |-> 0, isKCode |-> FALSE]
          ELSE [ valid |-> TRUE,
                 region |-> region,
                 allowance |->
                     IF isSpecialCode(normalizedCode)
                         THEN (IF normalizedCode = <<"N", "T">> THEN Infinity ELSE 0)
                     ELSE IF isKCode THEN -(parseInt(codeToProcess) * 10)
                     ELSE IF numericMatch # <<>> THEN parseInt(numericMatch) * 10
                     ELSE DefaultAllowance,
                 isKCode |-> isKCode ]

\* /^(S?K?\d{1,4}[TLMNWY](?:1|W1|M1)?|BR|D0|D1|NT|0T)$/i
TaxCodeRegex(code) ==
    LET upper == toUpperCase(code)
    IN  \/ upper \in SpecialCodes
        \/ \E p \in {<<>>, <<"S">>, <<"K">>, <<"S", "K">>} : MatchStandardCode(p, upper)

\* taxCodeSchema: whether the string parses
taxCodeSchema(code) == Len(code) >= 1 /\ Len(code) <= 7 /\ TaxCodeRegex(code)

\* the page's check: no taxCode error is set
PageTaxCodeCheck(code) == Len(code) # 0 /\ TaxCodeRegex(code)

InitValidators ==
    /\ pc = "validators"
    /\ taxCode \in CodeInputs
    /\ validation = Nothing
    /\ info = Nothing
    /\ annualSalary = 0
    /\ isCumulative = FALSE
    /\ taxYearData = Nothing
    /\ result = Nothing
    /\ args = Nothing
    /\ returned = Nothing
    /\ cache = <<>>
    /\ online = TRUE

ApplyValidators ==
    /\ pc = "validators"
    /\ validation' = validateTaxCode(taxCode)
    /\ returned' =
          [ validateAndProcessTaxCode |-> validateAndProcessTaxCode(taxCode),
            taxCodeSchema |-> taxCodeSchema(taxCode),
            page |-> PageTaxCodeCheck(taxCode) ]
    /\ pc' = "validatorsDone"
    /\ UNCHANGED <<taxCode, info, annualSalary, isCumulative, taxYearData, result, args,
                   cache, online>>

NextValidators == ApplyValidators

SpecValidators == InitValidators /\ [][NextValidators]_vars

\* a non-empty string of at most 7 characters without surrounding whitespace
PlainCode == Len(taxCode) \in 1..7 /\ trim(taxCode) = taxCode

\* C29: for every non-empty tax-code string of at most 7 characters without
\* surrounding whitespace, validateTaxCode, validateAndProcessTaxCode and taxCodeSchema
\* (the pattern of the period calculator page's check) give the same verdict.
C29_ValidatorsAgree ==
    (pc = "validatorsDone" /\ PlainCode) =>
        /\ validation.isValid = returned.validateAndProcessTaxCode.valid
        /\ validation.isValid = returned.taxCodeSchema
        /\ returned.taxCodeSchema = returned.page

\* the schema and the page's check, which share the pattern
C29_SchemaIsPageCheck ==
    (pc = "validatorsDone" /\ PlainCode) => returned.taxCodeSchema = returned.page

\* the codes on which the patterns are the same: no K and no C prefix
C29_AgreeOffKAndC ==
    (pc = "validatorsDone" /\ PlainCode
       /\ ~includes(toUpperCase(taxCode), <<"K">>)
       /\ ~startsWith(toUpperCase(taxCode), <<"C">>)) =>
        /\ validation.isValid = returned.validateAndProcessTaxCode.valid
        /\ validation.isValid = returned.taxCodeSchema

\* a number that is neither NaN, nor an infinity, nor an object
FiniteNumber(x) == ~isObject(x) /\ ~isNaN(x) /\ Abs(x) # Infinity

\* C30: for every salary >= 0 each of the three niBands entries has finite numeric
\* from, amount and tax; the amounts partition the salary at the annual Primary
\* Threshold and Upper Earnings Limit; each band's tax is the NI due on that band
\* alone: 0, 12% of the main-rate amount, 2% of the amount above the upper limit.
C30_NIBands ==
    pc = "done" =>
        LET b == result.niBands
            primary == Num(RAW_PRIMARY_THRESHOLD)
            upper == Num(RAW_UPPER_EARNINGS_LIMIT)
        IN  /\ Len(b) = 3
            /\ \A i \in 1..3 :
                  FiniteNumber(b[i].from) /\ FiniteNumber(b[i].amount) /\ FiniteNumber(b[i].tax)
            /\ b[1].amount = Min(Salary, primary)
            /\ b[2].amount = Max(0, Min(Salary - primary, upper - primary))
            /\ b[3].amount = Max(0, Salary - upper)
            /\ b[1].tax = 0
            /\ b[2].tax = preciseMultiply(b[2].amount, MAIN_RATE)
            /\ b[3].tax = preciseMultiply(b[3].amount, HIGHER_RATE)

\* what does hold of the entries: three of them, the first from 0 with no tax, every
\* tax a finite number, the main-rate tax being 12 times the month's whole NI
C30_NIBandsTaxes ==
    pc = "done" =>
        LET b == result.niBands
        IN  /\ Len(b) = 3
            /\ b[1].from = 0 /\ b[1].tax = 0
            /\ \A i \in 1..3 : FiniteNumber(b[i].tax)
            /\ b[2].tax = result.annualSummary.totalNI

====
